---- MODULE Spec2Model ----
(***************************************************************************)
(* safe_stack::Stack<T, Allocator> (include/safe_stack/safe_stack.h) and   *)
(* safe_stack::hash (include/safe_stack/hash.h) as a state machine.        *)
(*                                                                         *)
(* A Stack object is modelled as the bytes its hash is taken over: the     *)
(* 56-byte object representation on an LP64 little-endian build,           *)
(*    1..8   start_canary      9..16  _data       17..24  _capacity        *)
(*    25     _hash             26..32 padding      33..40  _size           *)
(*    41     _allocator (an empty class), 42..48 padding                   *)
(*    49..56 end_canary                                                    *)
(* The heap is a pool of blocks handed out by the allocator; a block holds *)
(* one slot per element, a slot being a constructed value or raw storage.  *)
(***************************************************************************)
EXTENDS Integers, Sequences, FiniteSets, TLC

VARIABLES
    obj,      \* obj[s]: the object representation of stack s while it lives
    heap,     \* heap[b]: block b of the allocator: [live, slots]
    last,     \* what the last call was and how it returned
    phase,    \* where the calling program is
    input,    \* the values the push-then-pop program has pushed
    seen,     \* the values top() returned to that program, in order
    calls,    \* the calls made since the first copy or move
    saved     \* what an outside write to the object replaced

vars == <<obj, heap, last, phase, input, seen, calls, saved>>

---------------------------------------------------------------------------
(* Bounds of the model *)

\* number of blocks the allocator can hand out
NumBlocks == 3
\* element values are 1..NumValues
NumValues == 2
\* a stack is pushed to at most this size when two stacks are modelled
MaxSize == 2
\* ... and to at most this size when one stack is modelled
MaxSizeOne == 4
\* ... and to at most this size before an outside write
MaxSizeCorrupt == 2
\* reserve is called with 0..MaxReserve
MaxReserve == 2
\* the calls a program with two stacks makes after its first copy or move
MaxUse == 1
\* the push-then-pop program pushes at most this many values
MaxN == 4
\* hash is applied to objects of 1..MaxBytes bytes
MaxBytes == 8
\* the calls other than declarations, pushes and destructions that a program
\* with two stacks and a refusing allocator makes
MaxRun == 1
\* the program that alternates push and pop makes at most this many calls
MaxAlt == 4
\* padding bytes are drawn from NumPads patterns
NumPads == 1

Stacks == {"x", "y"}
Values == 1..NumValues
Blocks == 1..NumBlocks
\* storage that holds no constructed element
Raw == 0
\* the null pointer
Null == 0
\* obj[s] before the declaration of s is reached, and after s has gone out of
\* scope
NoObject == <<>>
Gone == <<-1>>

---------------------------------------------------------------------------
(* hash.h *)

hash_factor == 31

\* one iteration of the loop, in unsigned char arithmetic: the int result is
\* converted back modulo 256
HashStep(result, byte) == (hash_factor * result + byte) % 256

\* The({e : x \in {v}}) is e with x standing for the value of v
The(S) == CHOOSE v \in S : TRUE

\* the loop from index i on, eight iterations at a time while eight remain
RECURSIVE hashLoop(_, _, _)
hashLoop(result, bytes, i) ==
    IF i + 7 <= Len(bytes)
    THEN The({hashLoop(r, bytes, j) : j \in {i + 8}, r \in {
           HashStep(HashStep(HashStep(HashStep(HashStep(HashStep(HashStep(HashStep(
             result, bytes[i]), bytes[i + 1]), bytes[i + 2]), bytes[i + 3]),
             bytes[i + 4]), bytes[i + 5]), bytes[i + 6]), bytes[i + 7])}})
    ELSE IF i <= Len(bytes)
    THEN The({hashLoop(r, bytes, j) : j \in {i + 1}, r \in {
           HashStep(result, bytes[i])}})
    ELSE result

\* the loop started from 0
hash_from_zero(bytes) == The({hashLoop(0, b, 1) : b \in {bytes}})

hash(bytes) == The({hashLoop(1, b, 1) : b \in {bytes}})

---------------------------------------------------------------------------
(* The object representation *)

\* 0x0DEADBEEFBADF00D, least significant byte first
canary_value == <<13, 240, 173, 251, 238, 219, 234, 13>>

\* a std::size_t or pointer value as its 8 bytes, least significant first
\* (model values stay below 2^24)
Bytes8(v) ==
    <<v % 256, (v \div 256) % 256, (v \div 65536) % 256, 0, 0, 0, 0, 0>>

\* the three limbs (most significant first) of an 8-byte value
Limbs(bs) ==
    <<bs[7] + 256 * bs[8],
      bs[4] + 256 * bs[5] + 65536 * bs[6],
      bs[1] + 256 * bs[2] + 65536 * bs[3]>>

\* unsigned comparison a <= b of two 8-byte values
LeqU64(a, b) ==
    LET x == Limbs(a)
        y == Limbs(b)
    IN  \/ x[1] < y[1]
        \/ x[1] = y[1] /\ x[2] < y[2]
        \/ x[1] = y[1] /\ x[2] = y[2] /\ x[3] <= y[3]

IsZero(bs) == \A i \in 1..Len(bs) : bs[i] = 0

\* the value of 8 bytes; anything of 2^24 or more reads as 2^24, which is
\* larger than every size, capacity and address of the model
ValU64(bs) ==
    LET x == Limbs(bs)
    IN  IF x[1] = 0 /\ x[2] = 0 THEN x[3] ELSE 256 * 65536

start_canary(o) == SubSeq(o, 1, 8)
dataBytes(o) == SubSeq(o, 9, 16)
capacityBytes(o) == SubSeq(o, 17, 24)
_hash(o) == o[25]
sizeBytes(o) == SubSeq(o, 33, 40)
end_canary(o) == SubSeq(o, 49, 56)

_data(o) == ValU64(dataBytes(o))
_capacity(o) == ValU64(capacityBytes(o))
_size(o) == ValU64(sizeBytes(o))

Put(o, first, bs) ==
    SubSeq(o, 1, first - 1) \o bs \o SubSeq(o, first + Len(bs), Len(o))

SetData(o, p) == Put(o, 9, Bytes8(p))
SetCapacity(o, c) == Put(o, 17, Bytes8(c))
SetSize(o, n) == Put(o, 33, Bytes8(n))
SetHash(o, h) == [o EXCEPT ![25] = h]

\* the byte a padding pattern fills with: indeterminate, but it stays what
\* it is for the object's lifetime
PadByte(k) == (k * 85) % 256
Pads == 0..(NumPads - 1)

\* the default member initialisers (safe_stack.h 116-122) over storage
\* whose padding holds pattern k
FreshObject(k) ==
    LET pad == PadByte(k)
    IN  canary_value \o Bytes8(Null) \o Bytes8(0) \o <<0>>
            \o <<pad, pad, pad, pad, pad, pad, pad>> \o Bytes8(0)
            \o <<pad, pad, pad, pad, pad, pad, pad, pad>> \o canary_value

---------------------------------------------------------------------------
(* The allocator and the heap *)

\* the address of block b
AddrOf(b) == 4096 + 64 * b

\* the block a pointer into the heap points to
BlockOf(p) == CHOOSE b \in Blocks : AddrOf(b) = p

FreeBlock == [live |-> FALSE, slots |-> <<>>]

\* what allocate(n) may answer: the first free block, a failure (-1,
\* std::bad_alloc) or, for n = 0 only, a null pointer (0): the result of
\* allocate(0) is unspecified
AllocAnswers(h, n) ==
    {b \in Blocks : ~h[b].live /\ \A c \in 1..(b - 1) : h[c].live}
        \cup {-1} \cup (IF n = 0 THEN {0} ELSE {})

\* n slots of raw storage
RawSlots(n) == [i \in 1..n |-> Raw]

allocate(h, n, a) ==
    IF a \in Blocks
    THEN [h EXCEPT ![a] = [live |-> TRUE, slots |-> RawSlots(n)]]
    ELSE h

AllocPtr(a) == IF a \in Blocks THEN AddrOf(a) ELSE Null

deallocate(h, p) == [h EXCEPT ![BlockOf(p)] = FreeBlock]

\* slots with its first elements replaced by those of vals, as many as fit
Overwrite(slots, vals) ==
    IF Len(vals) >= Len(slots) THEN SubSeq(vals, 1, Len(slots))
    ELSE SubSeq(vals, 1, Len(vals)) \o SubSeq(slots, Len(vals) + 1, Len(slots))

\* std::destroy_n(p, n)
destroy_n(h, p, n) ==
    [h EXCEPT ![BlockOf(p)].slots = Overwrite(@, RawSlots(n))]

\* the n first elements of the block at p
Elements(h, p, n) ==
    IF p = Null THEN <<>> ELSE SubSeq(h[BlockOf(p)].slots, 1, n)

---------------------------------------------------------------------------
(* safe_stack.h: the private helpers *)

growth_factor == 2
\* shrink_factor, 0.4, as the fraction ShrinkNum / ShrinkDen
ShrinkNum == 2
ShrinkDen == 5

\* compute_hash: the hash of the object with its _hash byte zeroed
compute_hash(o) == hash(SetHash(o, 0))

\* valid() without the comparison of the hash
valid_no_hash(o) ==
    /\ start_canary(o) = canary_value
    /\ end_canary(o) = canary_value
    /\ LeqU64(sizeBytes(o), capacityBytes(o))
    /\ \/ IsZero(capacityBytes(o)) /\ IsZero(dataBytes(o))
       \/ ~IsZero(capacityBytes(o)) /\ ~IsZero(dataBytes(o))

valid(o) ==
    /\ start_canary(o) = canary_value
    /\ end_canary(o) = canary_value
    /\ _hash(o) = compute_hash(o)
    /\ LeqU64(sizeBytes(o), capacityBytes(o))
    /\ \/ IsZero(capacityBytes(o)) /\ IsZero(dataBytes(o))
       \/ ~IsZero(capacityBytes(o)) /\ ~IsZero(dataBytes(o))

\* _hash = compute_hash()
StoreHash(o) == The({SetHash(p, compute_hash(p)) : p \in {o}})

\* The state of one call: this object (o), the other operand of a copy or
\* move (src), the heap (h), the exception the call is leaving by (exc), the
\* value it returns (ret), the blocks it allocated (na) and deallocated (nf),
\* the elements it destroyed (nd), the elements it wrote past the end of a
\* block (oob), whether it called allocate (asked) and whether the answer was
\* one the allocator can give (adm).
Frame(o, h) ==
    [o |-> o, src |-> NoObject, h |-> h, exc |-> "none", ret |-> 0,
     na |-> 0, nf |-> 0, nd |-> 0, oob |-> 0, asked |-> FALSE, adm |-> TRUE]

Throw(f, e) == [f EXCEPT !.exc = e]

Returned(f) == f.exc = "none" /\ f.adm

\* validate(): throws StackInvalidState unless valid()
validate(f) ==
    The({IF valid(g.o) THEN g ELSE Throw(g, "StackInvalidState") : g \in {f}})

\* the rest of a call: next applied to f, unless f has left by an exception
Then(f, next(_)) == The({IF Returned(g) THEN next(g) ELSE g : g \in {f}})

\* the body of the if in clear_internal
Release(f) ==
    [f EXCEPT
        !.h = deallocate(destroy_n(f.h, _data(f.o), _size(f.o)), _data(f.o)),
        !.o = StoreHash(SetSize(SetCapacity(SetData(f.o, Null), 0), 0)),
        !.nf = @ + 1,
        !.nd = @ + _size(f.o)]

clear_internal(f) ==
    The({validate(IF _data(g.o) # Null THEN Release(g) ELSE g) : g \in {f}})

Min(a, b) == IF a < b THEN a ELSE b

\* std::uninitialized_move_n / std::uninitialized_copy_n of n elements from
\* the block at from (in heap hs) to the block at to (in heap h). Elements
\* that do not fit the destination block are written past its end: they land
\* in storage nobody owns or, with clobber, over the first slots of the next
\* block.
copy_n(h, hs, from, n, to, clobber) ==
    IF n = 0 THEN h
    ELSE
    LET vals == SubSeq(hs[BlockOf(from)].slots, 1, n)
        b == BlockOf(to)
        fit == Len(h[b].slots)
        h1 == [h EXCEPT ![b].slots = Overwrite(@, vals)]
    IN  IF n > fit /\ clobber /\ b + 1 \in Blocks
        THEN [h1 EXCEPT ![b + 1].slots = Overwrite(@, SubSeq(vals, fit + 1, n))]
        ELSE h1

\* reserve from the allocation on: the allocator answered with block a
Reallocate(f, new_capacity, a, clobber) ==
    LET o == f.o
        new_size == Min(_capacity(o), _size(o))
        new_data == AllocPtr(a)
    IN  validate([f EXCEPT
            !.o = StoreHash(SetData(SetSize(SetCapacity(o, new_capacity),
                                            new_size), new_data)),
            !.h = IF _data(o) # Null
                  THEN deallocate(
                         destroy_n(
                           copy_n(allocate(f.h, new_capacity, a),
                                  f.h, _data(o), new_size, new_data, clobber),
                           _data(o), _size(o)),
                         _data(o))
                  ELSE allocate(f.h, new_capacity, a),
            !.asked = TRUE,
            !.na = @ + 1,
            !.nf = @ + (IF _data(o) # Null THEN 1 ELSE 0),
            !.nd = @ + (IF _data(o) # Null THEN _size(o) ELSE 0),
            !.oob = IF _data(o) # Null /\ new_size > new_capacity
                    THEN new_size - new_capacity ELSE 0])

\* reserve that stores _capacity before it asks the allocator
reserve_capacity_first(f, new_capacity, a, clobber) ==
    The({IF ~valid(g.o) THEN Throw(g, "StackInvalidState")
         ELSE IF new_capacity = 0 THEN clear_internal(g)
         ELSE IF a \notin AllocAnswers(g.h, new_capacity)
              THEN [g EXCEPT !.adm = FALSE, !.asked = TRUE]
         ELSE IF a = -1
              THEN Throw([g EXCEPT !.o = SetCapacity(g.o, new_capacity),
                                   !.asked = TRUE], "bad_alloc")
         ELSE Reallocate(g, new_capacity, a, clobber) : g \in {f}})

\* reserve(new_capacity); a is the allocator's answer to its allocate call
reserve(f, new_capacity, a, clobber) ==
    The({IF ~valid(g.o) THEN Throw(g, "StackInvalidState")
         ELSE IF new_capacity = 0 THEN clear_internal(g)
         ELSE IF a \notin AllocAnswers(g.h, new_capacity)
              THEN [g EXCEPT !.adm = FALSE, !.asked = TRUE]
         ELSE IF a = -1 THEN Throw([g EXCEPT !.asked = TRUE], "bad_alloc")
         ELSE Reallocate(g, new_capacity, a, clobber) : g \in {f}})

---------------------------------------------------------------------------
(* safe_stack.h: the public operations on one stack *)

\* allocator_traits::construct(_allocator, p + i, v)
construct(h, p, i, v) == [h EXCEPT ![BlockOf(p)].slots[i + 1] = v]

\* allocator_traits::destroy(_allocator, p + i)
destroy(h, p, i) == [h EXCEPT ![BlockOf(p)].slots[i + 1] = Raw]

\* emplace that does not count the new element
Append_no_size(f, v) ==
    validate([f EXCEPT
        !.h = construct(f.h, _data(f.o), _size(f.o), v),
        !.o = StoreHash(f.o)])

\* emplace after the growth step
Append_(f, v) ==
    validate([f EXCEPT
        !.h = construct(f.h, _data(f.o), _size(f.o), v),
        !.o = StoreHash(SetSize(f.o, _size(f.o) + 1))])

\* emplace that grows to 2 * capacity + 2
emplace_grow_more(f, v, a) ==
    The({IF ~valid(g.o) THEN Throw(g, "StackInvalidState")
         ELSE LET Rest(g1) == Append_(g1, v)
              IN  Then(IF _size(g.o) = _capacity(g.o)
                       THEN reserve(g, _capacity(g.o) * growth_factor + 2, a, FALSE)
                       ELSE g,
                       Rest) : g \in {f}})

emplace(f, v, a) ==
    The({IF ~valid(g.o) THEN Throw(g, "StackInvalidState")
         ELSE LET Rest(g1) == Append_(g1, v)
              IN  Then(IF _size(g.o) = _capacity(g.o)
                       THEN reserve(g, _capacity(g.o) * growth_factor + 1, a, FALSE)
                       ELSE g,
                       Rest) : g \in {f}})

push(f, v, a) == emplace(f, v, a)

\* the shrink test against capacity / 2
BelowShrink_half(size, capacity) == 2 * size < capacity

\* the shrink test against capacity / 4
BelowShrink_quarter(size, capacity) == 4 * size < capacity

\* the shrink test with <= for <
BelowShrink_or_equal(size, capacity) == ShrinkDen * size <= ShrinkNum * capacity

\* (double)_size / _capacity < shrink_factor
BelowShrink(size, capacity) == ShrinkDen * size < ShrinkNum * capacity

\* pop that does not recompute _hash after the decrement
Remove_stale_hash(f) ==
    The({[f EXCEPT !.o = o1, !.h = destroy(f.h, _data(o1), _size(o1)),
                   !.nd = @ + 1] :
            o1 \in {SetSize(f.o, _size(f.o) - 1)}})

\* pop from the decrement of _size to the destruction of the element
Remove(f) ==
    The({[f EXCEPT !.o = o1, !.h = destroy(f.h, _data(o1), _size(o1)),
                   !.nd = @ + 1] :
            o1 \in {StoreHash(SetSize(f.o, _size(f.o) - 1))}})

\* pop that reports an empty stack as StackInvalidState
pop_wrong_error(f, a) ==
    The({IF ~valid(g.o) \/ _size(g.o) = 0 THEN Throw(g, "StackInvalidState")
         ELSE Then(The({IF BelowShrink(_size(g1.o), _capacity(g1.o))
                        THEN reserve(g1, _size(g1.o), a, FALSE)
                        ELSE g1 : g1 \in {Remove(g)}}),
                   validate) : g \in {f}})

pop(f, a) ==
    The({IF ~valid(g.o) THEN Throw(g, "StackInvalidState")
         ELSE IF _size(g.o) = 0 THEN Throw(g, "StackUnderflow")
         ELSE Then(The({IF BelowShrink(_size(g1.o), _capacity(g1.o))
                        THEN reserve(g1, _size(g1.o), a, FALSE)
                        ELSE g1 : g1 \in {Remove(g)}}),
                   validate) : g \in {f}})

\* top() returning the bottom element, _data[0]
top_bottom(f) ==
    The({IF ~valid(g.o) THEN Throw(g, "StackInvalidState")
         ELSE IF _size(g.o) = 0 THEN Throw(g, "StackUnderflow")
         ELSE [g EXCEPT !.ret = g.h[BlockOf(_data(g.o))].slots[1]] :
            g \in {f}})

top(f) ==
    The({IF ~valid(g.o) THEN Throw(g, "StackInvalidState")
         ELSE IF _size(g.o) = 0 THEN Throw(g, "StackUnderflow")
         ELSE [g EXCEPT !.ret = g.h[BlockOf(_data(g.o))].slots[_size(g.o)]] :
            g \in {f}})

\* const T &top() const { return top(); }: in a const member function the
\* call selects the const overload, this function itself; validate() is
\* never reached and the recursion has no end. A build either runs out of
\* stack (the process is killed) or, with the call compiled to a jump, loops
\* for ever: the call leaves by out, one of Diverges, and never returns.
Diverges == {"stack_overflow", "no_return"}

top_const(f, out) == Throw(f, out)

\* clear that only sets _size to 0
clear_size_only(f) ==
    The({IF ~valid(g.o) THEN Throw(g, "StackInvalidState")
         ELSE validate([g EXCEPT !.o = StoreHash(SetSize(g.o, 0))]) :
            g \in {f}})

clear(f) ==
    The({IF ~valid(g.o) THEN Throw(g, "StackInvalidState")
         ELSE Then(clear_internal(g), validate) : g \in {f}})

size(f) ==
    The({IF ~valid(g.o) THEN Throw(g, "StackInvalidState")
         ELSE [g EXCEPT !.ret = _size(g.o)] : g \in {f}})

\* size() == 0, as 1 (true) or 0 (false)
EmptyOf(f) == [f EXCEPT !.ret = IF f.ret = 0 THEN 1 ELSE 0]

empty(f) == Then(size(f), EmptyOf)

---------------------------------------------------------------------------
(* safe_stack.h: construction, copy, move, destruction *)

\* Stack() noexcept, over storage whose padding holds pattern k
default_ctor(h, k) == validate(Frame(StoreHash(FreshObject(k)), h))

\* a copy that adopts the source's buffer instead of one of its own
CopyFields_shallow(o, srcO, a) ==
    SetData(SetSize(SetCapacity(o, _capacity(srcO)), _size(srcO)), _data(srcO))

\* the members a copy sets, in an object o whose allocate call answered a
CopyFields(o, srcO, a) ==
    SetData(SetSize(SetCapacity(o, _capacity(srcO)), _size(srcO)), AllocPtr(a))

\* the heap after the allocate and the uninitialized_copy_n of a copy
CopyHeap(h, srcO, a) ==
    copy_n(allocate(h, _capacity(srcO), a), h, _data(srcO), _size(srcO),
           AllocPtr(a), FALSE)

\* Stack(const Stack &o): an exception leaves no object behind
copy_ctor(srcO, h, k, a) ==
    The({IF ~valid(srcO) THEN Throw(f, "StackInvalidState")
         ELSE IF a \notin AllocAnswers(h, _capacity(srcO))
              THEN [f EXCEPT !.adm = FALSE, !.asked = TRUE]
         ELSE IF a = -1 THEN Throw([f EXCEPT !.asked = TRUE], "bad_alloc")
         ELSE The({IF Returned(f1) THEN f1 ELSE [f1 EXCEPT !.o = NoObject] :
                f1 \in {validate([f EXCEPT
                          !.o = StoreHash(CopyFields(FreshObject(k), srcO, a)),
                          !.h = CopyHeap(h, srcO, a),
                          !.asked = TRUE,
                          !.na = IF a \in Blocks THEN 1 ELSE 0])}}) :
            f \in {[Frame(NoObject, h) EXCEPT !.src = srcO]}})

\* operator=(const Stack &o), this != &o; a std::bad_alloc leaves _capacity
\* and _size assigned and _hash not yet recomputed
copy_assign(thisO, srcO, h, a) ==
    The({IF ~valid(thisO) \/ ~valid(srcO) THEN Throw(f, "StackInvalidState")
         ELSE IF a \notin AllocAnswers(h, _capacity(srcO))
              THEN [f EXCEPT !.adm = FALSE, !.asked = TRUE]
         ELSE IF a = -1
              THEN Throw([f EXCEPT
                            !.o = SetSize(SetCapacity(thisO, _capacity(srcO)),
                                          _size(srcO)),
                            !.asked = TRUE], "bad_alloc")
         ELSE validate([f EXCEPT
                !.o = StoreHash(CopyFields(thisO, srcO, a)),
                !.h = CopyHeap(h, srcO, a),
                !.asked = TRUE,
                !.na = IF a \in Blocks THEN 1 ELSE 0]) :
            f \in {[Frame(thisO, h) EXCEPT !.src = srcO]}})

\* a move that leaves _data in the moved-from object
MovedFrom_keeps_data(o) == SetSize(SetCapacity(o, 0), 1)

\* what the three std::exchange calls leave in the moved-from object
MovedFrom(o) == SetSize(SetCapacity(SetData(o, Null), 0), 1)

\* the exchanges without the one of _size
Adopt_no_size(o, srcO) ==
    SetCapacity(SetData(o, _data(srcO)), _capacity(srcO))

\* the three std::exchange calls, as seen by the object moved to
Adopt(o, srcO) ==
    SetSize(SetCapacity(SetData(o, _data(srcO)), _capacity(srcO)), _size(srcO))

\* Stack(Stack &&o): an exception leaves no object behind
move_ctor(srcO, h, k) ==
    The({IF ~valid(srcO) THEN Throw(f, "StackInvalidState")
         ELSE The({IF Returned(f1) THEN f1 ELSE [f1 EXCEPT !.o = NoObject] :
                f1 \in {validate([f EXCEPT
                          !.o = StoreHash(Adopt(FreshObject(k), srcO)),
                          !.src = MovedFrom(srcO)])}}) :
            f \in {[Frame(NoObject, h) EXCEPT !.src = srcO]}})

\* operator=(Stack &&o) after clear()
Take(f) ==
    validate([f EXCEPT !.o = StoreHash(Adopt(f.o, f.src)),
                       !.src = MovedFrom(f.src)])

\* move assignment that clears this before it validates the source
move_assign_clear_first(thisO, srcO, h) ==
    The({IF ~valid(thisO) THEN Throw(f, "StackInvalidState")
         ELSE LET After(g) == IF ~valid(srcO) THEN Throw(g, "StackInvalidState")
                              ELSE Take(g)
              IN  Then(clear(f), After) :
            f \in {[Frame(thisO, h) EXCEPT !.src = srcO]}})

\* move assignment that adopts the source's buffer without clear()
move_assign_no_clear(thisO, srcO, h) ==
    The({IF ~valid(thisO) \/ ~valid(srcO) THEN Throw(f, "StackInvalidState")
         ELSE Take(f) :
            f \in {[Frame(thisO, h) EXCEPT !.src = srcO]}})

\* operator=(Stack &&o), this != &o
move_assign(thisO, srcO, h) ==
    The({IF ~valid(thisO) \/ ~valid(srcO) THEN Throw(f, "StackInvalidState")
         ELSE Then(clear(f), Take) :
            f \in {[Frame(thisO, h) EXCEPT !.src = srcO]}})

\* a destructor that releases nothing
dtor_keeps_buffer(o, h) == [Frame(o, h) EXCEPT !.o = Gone]

\* ~Stack(): the object is gone afterwards
dtor(o, h) ==
    The({[f EXCEPT !.o = Gone] :
            f \in {IF valid(o) THEN clear_internal(Frame(o, h)) ELSE Frame(o, h)}})

---------------------------------------------------------------------------
(* The calls a program makes, as actions *)

prog == <<phase, input, seen, calls, saved>>

\* the answers the allocator may give to a call made now for n elements
Answers(n) == AllocAnswers(heap, n)

\* without fail, the allocator refuses only when no block is free
Refusal(f, fail) ==
    f.exc = "bad_alloc" => fail \/ \A b \in Blocks : heap[b].live

Result(f) == IF f.exc = "none" THEN "ok" ELSE f.exc

NoCall ==
    [op |-> "none", stk |-> "", from |-> "", arg |-> 0, res |-> "ok",
     ret |-> 0, na |-> 0, nf |-> 0, oob |-> 0]

\* the call op on stack s (with argument arg, other operand from) ran as f
\* under answer a of the allocator; last keeps the argument of a call that
\* returned
Commit(op, s, from, arg, f, a, fail) ==
    /\ f.adm
    /\ ~f.asked => a = -1
    /\ Refusal(f, fail)
    /\ obj' = IF from = "" \/ from = s
              THEN [obj EXCEPT ![s] = f.o]
              ELSE [obj EXCEPT ![s] = f.o, ![from] = f.src]
    /\ heap' = f.h
    /\ last' = [op |-> op, stk |-> s, from |-> from,
                arg |-> IF f.exc = "none" THEN arg ELSE 0,
                res |-> Result(f), ret |-> f.ret,
                na |-> f.na, nf |-> f.nf, oob |-> f.oob]

Lives(s) == Len(obj[s]) > 1

\* s is declared once: its constructor runs on storage not used before
Undeclared(s) == obj[s] = NoObject

\* the model stops pushing at max elements
MayGrow(s, max) == _size(obj[s]) < max \/ ~valid(obj[s])

Construct(s) ==
    /\ Undeclared(s)
    /\ \E k \in Pads : Commit("Stack", s, "", 0, default_ctor(heap, k), -1, FALSE)

CopyConstruct(d, s, fail) ==
    /\ Undeclared(d) /\ Lives(s)
    /\ \E k \in Pads, a \in Answers(0) :
          Commit("copy_ctor", d, s, 0, copy_ctor(obj[s], heap, k, a), a, fail)

\* copy assignment without the self-assignment check
CopyAssign_no_check(d, s, fail) ==
    /\ Lives(d) /\ Lives(s)
    /\ \E a \in Answers(0) :
          Commit("copy_assign", d, s, 0,
                 copy_assign(obj[d], obj[s], heap, a), a, fail)

\* the self-assignment check returns before anything is validated
CopyAssign(d, s, fail) ==
    /\ Lives(d) /\ Lives(s)
    /\ IF d = s
       THEN Commit("copy_assign", d, s, 0, Frame(obj[d], heap), -1, FALSE)
       ELSE \E a \in Answers(0) :
              Commit("copy_assign", d, s, 0,
                     copy_assign(obj[d], obj[s], heap, a), a, fail)

MoveConstruct(d, s) ==
    /\ Undeclared(d) /\ Lives(s)
    /\ \E k \in Pads :
          Commit("move_ctor", d, s, 0, move_ctor(obj[s], heap, k), -1, FALSE)

MoveAssign(d, s) ==
    /\ Lives(d) /\ Lives(s)
    /\ IF d = s
       THEN Commit("move_assign", d, s, 0, Frame(obj[d], heap), -1, FALSE)
       ELSE Commit("move_assign", d, s, 0,
                   move_assign(obj[d], obj[s], heap), -1, FALSE)

Destroy(s) ==
    /\ Lives(s)
    /\ Commit("dtor", s, "", 0, dtor(obj[s], heap), -1, FALSE)

Push(s, v, max, fail) ==
    /\ Lives(s) /\ MayGrow(s, max)
    /\ \E a \in Answers(1) :
          Commit("push", s, "", v, push(Frame(obj[s], heap), v, a), a, fail)

Emplace(s, v, max, fail) ==
    /\ Lives(s) /\ MayGrow(s, max)
    /\ \E a \in Answers(1) :
          Commit("emplace", s, "", v, emplace(Frame(obj[s], heap), v, a), a, fail)

Pop(s, fail) ==
    /\ Lives(s)
    /\ \E a \in Answers(1) :
          Commit("pop", s, "", 0, pop(Frame(obj[s], heap), a), a, fail)

Top(s) == Lives(s) /\ Commit("top", s, "", 0, top(Frame(obj[s], heap)), -1, FALSE)

Size(s) == Lives(s) /\ Commit("size", s, "", 0, size(Frame(obj[s], heap)), -1, FALSE)

Empty(s) == Lives(s) /\ Commit("empty", s, "", 0, empty(Frame(obj[s], heap)), -1, FALSE)

Clear(s) == Lives(s) /\ Commit("clear", s, "", 0, clear(Frame(obj[s], heap)), -1, FALSE)

\* with clobber, elements written past the end of the new buffer land in the
\* block that follows it
Reserve(s, n, fail) ==
    /\ Lives(s)
    /\ \E a \in Answers(1), clobber \in BOOLEAN :
          /\ clobber => _size(obj[s]) > n
          /\ Commit("reserve", s, "", n,
                    reserve(Frame(obj[s], heap), n, a, clobber), a, fail)

NoHeap == [b \in Blocks |-> FreeBlock]

Init ==
    /\ obj = [s \in Stacks |-> NoObject]
    /\ heap = NoHeap
    /\ last = NoCall
    /\ phase = "idle"
    /\ input = <<>>
    /\ seen = <<>>
    /\ calls = 0
    /\ saved = NoObject

---------------------------------------------------------------------------
(* Spec: a program with two stacks. It declares and fills them by pushes,  *)
(* copies or moves one of them, and then makes up to MaxUse calls of any   *)
(* kind on either. The allocator refuses only when every block is in use.  *)

Rest == <<input, seen, saved>>

\* phase is "idle", then "build" while the stacks are declared and filled,
\* then the name of the first copy or move
InUse == phase \notin {"idle", "build"}

\* a call that fills: before the first copy or move, or one of the MaxUse
\* calls after it
Fill ==
    \/ phase \in {"idle", "build"} /\ phase' = "build" /\ calls' = calls
    \/ InUse /\ calls < MaxUse /\ phase' = phase /\ calls' = calls + 1

\* a copy or a move
Transfer(op) ==
    \/ phase = "build" /\ phase' = op /\ calls' = calls
    \/ InUse /\ calls < MaxUse /\ phase' = phase /\ calls' = calls + 1

\* any other call
Use == InUse /\ calls < MaxUse /\ phase' = phase /\ calls' = calls + 1

DoConstruct == \E s \in Stacks : Fill /\ Construct(s) /\ UNCHANGED Rest
DoPush ==
    \E s \in Stacks, v \in Values :
        Fill /\ Push(s, v, MaxSize, FALSE) /\ UNCHANGED Rest
DoCopyConstruct ==
    \E d \in Stacks, s \in Stacks :
        Transfer("copy_ctor") /\ CopyConstruct(d, s, FALSE) /\ UNCHANGED Rest
DoCopyAssign ==
    \E d \in Stacks, s \in Stacks :
        Transfer("copy_assign") /\ CopyAssign(d, s, FALSE) /\ UNCHANGED Rest
DoMoveConstruct ==
    \E d \in Stacks, s \in Stacks :
        Transfer("move_ctor") /\ MoveConstruct(d, s) /\ UNCHANGED Rest
DoMoveAssign ==
    \E d \in Stacks, s \in Stacks :
        Transfer("move_assign") /\ MoveAssign(d, s) /\ UNCHANGED Rest
DoDestroy == \E s \in Stacks : Use /\ Destroy(s) /\ UNCHANGED Rest
DoEmplace ==
    \E s \in Stacks, v \in Values :
        Use /\ Emplace(s, v, MaxSize, FALSE) /\ UNCHANGED Rest
DoPop == \E s \in Stacks : Use /\ Pop(s, FALSE) /\ UNCHANGED Rest
DoTop == \E s \in Stacks : Use /\ Top(s) /\ UNCHANGED Rest
DoSize == \E s \in Stacks : Use /\ Size(s) /\ UNCHANGED Rest
DoEmpty == \E s \in Stacks : Use /\ Empty(s) /\ UNCHANGED Rest
DoClear == \E s \in Stacks : Use /\ Clear(s) /\ UNCHANGED Rest
DoReserve ==
    \E s \in Stacks, n \in 0..MaxReserve :
        Use /\ Reserve(s, n, FALSE) /\ UNCHANGED Rest

Next ==
    \/ DoConstruct
    \/ DoCopyConstruct
    \/ DoCopyAssign
    \/ DoMoveConstruct
    \/ DoMoveAssign
    \/ DoDestroy
    \/ DoPush
    \/ DoEmplace
    \/ DoPop
    \/ DoTop
    \/ DoSize
    \/ DoEmpty
    \/ DoClear
    \/ DoReserve

Spec == Init /\ [][Next]_vars

---------------------------------------------------------------------------
(* SpecOne: a program with one stack, x, that calls anything on it in any  *)
(* order; the allocator may refuse any request.                            *)

OneConstruct == Construct("x") /\ UNCHANGED prog
OneDestroy == Destroy("x") /\ UNCHANGED prog
OnePush == \E v \in Values : Push("x", v, MaxSizeOne, TRUE) /\ UNCHANGED prog
OneEmplace ==
    \E v \in Values : Emplace("x", v, MaxSizeOne, TRUE) /\ UNCHANGED prog
OnePop == Pop("x", TRUE) /\ UNCHANGED prog
OneTop == Top("x") /\ UNCHANGED prog
OneSize == Size("x") /\ UNCHANGED prog
OneEmpty == Empty("x") /\ UNCHANGED prog
OneClear == Clear("x") /\ UNCHANGED prog
OneReserve ==
    \E n \in 0..MaxReserve : Reserve("x", n, TRUE) /\ UNCHANGED prog

NextOne ==
    \/ OneConstruct
    \/ OneDestroy
    \/ OnePush
    \/ OneEmplace
    \/ OnePop
    \/ OneTop
    \/ OneSize
    \/ OneEmpty
    \/ OneClear
    \/ OneReserve

SpecOne == Init /\ [][NextOne]_vars

---------------------------------------------------------------------------
(* SpecCore: as SpecOne, without reserve and without the destructor        *)

NextCore ==
    \/ OneConstruct
    \/ OnePush
    \/ OneEmplace
    \/ OnePop
    \/ OneTop
    \/ OneSize
    \/ OneEmpty
    \/ OneClear

SpecCore == Init /\ [][NextCore]_vars

---------------------------------------------------------------------------
(* SpecLifo: the program that pushes up to MaxN values on a new stack and  *)
(* then reads and pops until it has read as many as it pushed. A call that *)
(* signals an error ends the program in phase "failed".                    *)

Went(p) == IF last'.res = "ok" THEN p ELSE "failed"

LifoConstruct ==
    /\ phase = "idle"
    /\ Construct("x")
    /\ phase' = Went("push")
    /\ UNCHANGED <<input, seen, calls, saved>>

LifoPush ==
    /\ phase = "push" /\ Len(input) < MaxN
    /\ \E v \in Values :
          /\ Push("x", v, MaxN, FALSE)
          /\ input' = Append(input, v)
    /\ phase' = Went("push")
    /\ UNCHANGED <<seen, calls, saved>>

LifoTop ==
    /\ phase \in {"push", "pop"} /\ Len(seen) < Len(input)
    /\ Top("x")
    /\ seen' = Append(seen, last'.ret)
    /\ phase' = Went("read")
    /\ UNCHANGED <<input, calls, saved>>

LifoPop ==
    /\ phase = "read"
    /\ Pop("x", FALSE)
    /\ phase' = Went("pop")
    /\ UNCHANGED <<input, seen, calls, saved>>

NextLifo == LifoConstruct \/ LifoPush \/ LifoTop \/ LifoPop

SpecLifo == Init /\ [][NextLifo]_vars

---------------------------------------------------------------------------
(* SpecCorrupt: a stack filled by pushes whose object is then written to   *)
(* from outside the class: one byte of a member is overwritten, or the     *)
(* whole object is zero-filled; the program calls the stack and the write  *)
(* is undone.                                                              *)

\* the bytes of the members: the canaries, _data, _capacity, _hash, _size
ControlBytes == (1..25) \cup (33..40) \cup (49..56)

\* what an overwritten byte is changed by, modulo 256
Deltas == {1, 128, 255}

ObjectSize == 56

ZeroObject == [i \in 1..ObjectSize |-> 0]

Corrupted == saved # NoObject

CorruptConstruct == ~Corrupted /\ Construct("x") /\ UNCHANGED prog

CorruptPush ==
    /\ ~Corrupted
    /\ \E v \in Values : Push("x", v, MaxSizeCorrupt, FALSE)
    /\ UNCHANGED prog

Outside(op, i, o) ==
    /\ obj' = [obj EXCEPT !["x"] = o]
    /\ last' = [NoCall EXCEPT !.op = op, !.stk = "x", !.arg = i]
    /\ UNCHANGED <<heap, phase, input, seen, calls>>

\* byte i of x is overwritten with another value
CorruptByte ==
    /\ ~Corrupted /\ Lives("x") /\ valid(obj["x"])
    /\ \E i \in ControlBytes, d \in Deltas :
          /\ Outside("corrupt", i,
                     [obj["x"] EXCEPT ![i] = (@ + d) % 256])
          /\ saved' = <<i, obj["x"][i]>>

\* memset(&x, 0, sizeof x)
ZeroFill ==
    /\ ~Corrupted /\ Lives("x") /\ valid(obj["x"])
    /\ Outside("zero", 0, ZeroObject)
    /\ saved' = obj["x"]

\* the overwritten byte, or the zero-filled object, is written back
Restore ==
    /\ Corrupted
    /\ Outside("restore", 0,
               IF Len(saved) = 2
               THEN [obj["x"] EXCEPT ![saved[1]] = saved[2]]
               ELSE saved)
    /\ saved' = NoObject

ProbeSize == Corrupted /\ Size("x") /\ UNCHANGED prog
ProbeEmpty == Corrupted /\ Empty("x") /\ UNCHANGED prog
ProbePush ==
    /\ Corrupted
    /\ \E v \in Values : Push("x", v, MaxSizeCorrupt, FALSE)
    /\ UNCHANGED prog
ProbePop == Corrupted /\ Pop("x", FALSE) /\ UNCHANGED prog
ProbeTop == Corrupted /\ Top("x") /\ UNCHANGED prog
ProbeClear == Corrupted /\ Clear("x") /\ UNCHANGED prog
ProbeReserve ==
    /\ Corrupted
    /\ \E n \in 0..MaxReserve : Reserve("x", n, FALSE)
    /\ UNCHANGED prog

NextCorrupt ==
    \/ CorruptConstruct
    \/ CorruptPush
    \/ CorruptByte
    \/ ZeroFill
    \/ Restore
    \/ ProbeSize
    \/ ProbeEmpty
    \/ ProbePush
    \/ ProbePop
    \/ ProbeTop
    \/ ProbeClear
    \/ ProbeReserve

SpecCorrupt == Init /\ [][NextCorrupt]_vars

---------------------------------------------------------------------------
(* SpecHash: hash is called on an object of 1..MaxBytes bytes, each byte   *)
(* one of HashBytes.                                                       *)

HashBytes == {0, 1, 255}

Objects == UNION {[1..n -> HashBytes] : n \in 1..MaxBytes}

InitHash ==
    /\ obj = [s \in Stacks |-> NoObject]
    /\ heap = NoHeap
    /\ last = NoCall
    /\ phase = "idle"
    /\ input \in Objects
    /\ seen = <<>>
    /\ calls = 0
    /\ saved = NoObject

\* hash(data), data being the object whose bytes are input
CallHash ==
    /\ phase = "idle"
    /\ phase' = "hashed"
    /\ seen' = <<hash(input)>>
    /\ UNCHANGED <<obj, heap, last, input, calls, saved>>

NextHash == CallHash

SpecHash == InitHash /\ [][NextHash]_vars

---------------------------------------------------------------------------
(* SpecConst: a program with one stack that pushes, pops and reads it, and *)
(* may call the const-qualified top(), after which it makes no call.       *)

Running == phase # "aborted"

\* std::as_const(x).top()
ConstTop ==
    /\ Running /\ Lives("x")
    /\ \E out \in Diverges :
          Commit("top_const", "x", "", 0, top_const(Frame(obj["x"], heap), out),
                 -1, FALSE)
    /\ phase' = "aborted"
    /\ UNCHANGED <<input, seen, calls, saved>>

NextConst ==
    \/ Running /\ OneConstruct
    \/ Running /\ OnePush
    \/ Running /\ OnePop
    \/ Running /\ OneTop
    \/ Running /\ OneClear
    \/ ConstTop

SpecConst == Init /\ [][NextConst]_vars

---------------------------------------------------------------------------
(* SpecDestroy: as SpecCorrupt, and x may be moved into a new stack y and  *)
(* may go out of scope: while valid, while moved-from and while written    *)
(* to from outside.                                                        *)

\* Stack y{std::move(x)}
CorruptMove == ~Corrupted /\ MoveConstruct("y", "x") /\ UNCHANGED prog

\* x goes out of scope with no outside write pending
CorruptDestroy == ~Corrupted /\ Destroy("x") /\ UNCHANGED prog

\* x goes out of scope while overwritten; nothing is left to write back
ProbeDestroy ==
    /\ Corrupted
    /\ Destroy("x")
    /\ saved' = NoObject
    /\ UNCHANGED <<phase, input, seen, calls>>

NextDestroy ==
    \/ CorruptConstruct
    \/ CorruptPush
    \/ CorruptByte
    \/ ZeroFill
    \/ Restore
    \/ ProbeSize
    \/ ProbeEmpty
    \/ ProbePush
    \/ ProbePop
    \/ ProbeTop
    \/ ProbeClear
    \/ ProbeReserve
    \/ CorruptMove
    \/ CorruptDestroy
    \/ ProbeDestroy

SpecDestroy == Init /\ [][NextDestroy]_vars

---------------------------------------------------------------------------
(* SpecOwn: a program with two stacks that declares and fills them, with   *)
(* up to MaxUse calls of pop, clear or reserve among the pushes, and then  *)
(* copies, moves and destroys them in any order. The allocator refuses     *)
(* only when every block is in use.                                        *)

\* a declaration or a push before the first copy, move or destruction
Building == phase \in {"idle", "build"} /\ phase' = "build" /\ calls' = calls

\* one of the MaxUse other calls made while the stacks are filled
Budget == phase = "build" /\ calls < MaxUse /\ phase' = phase /\ calls' = calls + 1

\* a copy, a move or a destruction
Owning == phase \in {"build", "own"} /\ phase' = "own" /\ calls' = calls

OwnConstruct == \E s \in Stacks : Building /\ Construct(s) /\ UNCHANGED Rest
OwnPush ==
    \E s \in Stacks, v \in Values :
        Building /\ Push(s, v, MaxSize, FALSE) /\ UNCHANGED Rest
OwnPop == \E s \in Stacks : Budget /\ Pop(s, FALSE) /\ UNCHANGED Rest
OwnClear == \E s \in Stacks : Budget /\ Clear(s) /\ UNCHANGED Rest
OwnReserve ==
    \E s \in Stacks, n \in 0..MaxReserve :
        Budget /\ Reserve(s, n, FALSE) /\ UNCHANGED Rest
OwnCopyConstruct ==
    \E d \in Stacks, s \in Stacks :
        Owning /\ CopyConstruct(d, s, FALSE) /\ UNCHANGED Rest
OwnCopyAssign ==
    \E d \in Stacks, s \in Stacks :
        Owning /\ CopyAssign(d, s, FALSE) /\ UNCHANGED Rest
OwnMoveConstruct ==
    \E d \in Stacks, s \in Stacks :
        Owning /\ MoveConstruct(d, s) /\ UNCHANGED Rest
OwnMoveAssign ==
    \E d \in Stacks, s \in Stacks :
        Owning /\ MoveAssign(d, s) /\ UNCHANGED Rest
OwnDestroy == \E s \in Stacks : Owning /\ Destroy(s) /\ UNCHANGED Rest

NextOwn ==
    \/ OwnConstruct
    \/ OwnPush
    \/ OwnPop
    \/ OwnClear
    \/ OwnReserve
    \/ OwnCopyConstruct
    \/ OwnCopyAssign
    \/ OwnMoveConstruct
    \/ OwnMoveAssign
    \/ OwnDestroy

SpecOwn == Init /\ [][NextOwn]_vars

---------------------------------------------------------------------------
(* SpecThrash: a program with one stack that pushes and pops until a pop   *)
(* has shrunk the buffer, and from there alternates push and pop, MaxAlt   *)
(* calls in all. input holds the size the shrink left, seen holds, per     *)
(* call of the alternation, whether it allocated or deallocated (1) or not *)
(* (0).                                                                    *)

\* the pop of this step took x below the shrink threshold and returned
Shrank ==
    /\ valid(obj["x"]) /\ _size(obj["x"]) >= 1
    /\ BelowShrink(_size(obj["x"]) - 1, _capacity(obj["x"]))
    /\ last'.res = "ok"

\* whether the call of this step allocated or deallocated a buffer
Moved == IF last'.na + last'.nf > 0 THEN 1 ELSE 0

ThrashConstruct ==
    /\ phase = "idle"
    /\ Construct("x")
    /\ phase' = "fill"
    /\ UNCHANGED <<input, seen, calls, saved>>

ThrashPush ==
    /\ phase = "fill"
    /\ \E v \in Values : Push("x", v, MaxSizeOne, FALSE)
    /\ UNCHANGED prog

\* a pop before the alternation; after one that shrank the program may start
\* to alternate
ThrashPop ==
    /\ phase = "fill"
    /\ Pop("x", FALSE)
    /\ \/ phase' = "fill" /\ input' = input
       \/ Shrank /\ phase' = "alt" /\ input' = <<_size(obj'["x"])>>
    /\ UNCHANGED <<seen, calls, saved>>

AltPush ==
    /\ phase = "alt" /\ calls < MaxAlt /\ calls % 2 = 0
    /\ \E v \in Values : Push("x", v, MaxSizeOne, FALSE)
    /\ seen' = Append(seen, Moved)
    /\ calls' = calls + 1
    /\ UNCHANGED <<phase, input, saved>>

AltPop ==
    /\ phase = "alt" /\ calls < MaxAlt /\ calls % 2 = 1
    /\ Pop("x", FALSE)
    /\ seen' = Append(seen, Moved)
    /\ calls' = calls + 1
    /\ UNCHANGED <<phase, input, saved>>

NextThrash == ThrashConstruct \/ ThrashPush \/ ThrashPop \/ AltPush \/ AltPop

SpecThrash == Init /\ [][NextThrash]_vars

---------------------------------------------------------------------------
(* SpecRun: a program with two stacks that declares them, pushes, lets     *)
(* them go out of scope and makes up to MaxRun other calls: emplace, pop,  *)
(* clear, a copy or a move of one to the other; it never calls reserve.    *)
(* The allocator may refuse any request. phase is "clean" while every call *)
(* has returned, "failed" once a call has signalled an error, and          *)
(* "refused" once the allocator has refused the shrinking reserve of a     *)
(* pop.                                                                    *)

Track ==
    /\ phase' = IF phase = "refused"
                    \/ (last'.op = "pop" /\ last'.res = "bad_alloc")
                 THEN "refused"
                 ELSE IF phase = "failed" \/ last'.res # "ok"
                 THEN "failed"
                 ELSE "clean"
    /\ UNCHANGED <<input, seen, saved>>

\* a declaration, a push or a destruction
Free == Track /\ calls' = calls

\* one of the MaxRun other calls
Counted == Track /\ calls < MaxRun /\ calls' = calls + 1

NextRun ==
    \/ \E s \in Stacks : Construct(s) /\ Free
    \/ \E s \in Stacks, v \in Values : Push(s, v, MaxSize, TRUE) /\ Free
    \/ \E s \in Stacks : Destroy(s) /\ Free
    \/ \E s \in Stacks, v \in Values : Emplace(s, v, MaxSize, TRUE) /\ Counted
    \/ \E s \in Stacks : Pop(s, TRUE) /\ Counted
    \/ \E s \in Stacks : Clear(s) /\ Counted
    \/ \E d \in Stacks, s \in Stacks : CopyConstruct(d, s, TRUE) /\ Counted
    \/ \E d \in Stacks, s \in Stacks : CopyAssign(d, s, TRUE) /\ Counted
    \/ \E d \in Stacks, s \in Stacks : MoveConstruct(d, s) /\ Counted
    \/ \E d \in Stacks, s \in Stacks : MoveAssign(d, s) /\ Counted

SpecRun == Init /\ [][NextRun]_vars

---------------------------------------------------------------------------
(* Properties *)

X == obj["x"]
Y == obj["y"]

\* the elements of stack s, bottom first
Contents(s) == Elements(heap, _data(obj[s]), _size(obj[s]))

Reverse(q) == [i \in 1..Len(q) |-> q[Len(q) + 1 - i]]

\* the push-then-pop program has read as many values as it pushed
LifoDone == phase \in {"push", "pop"} /\ Len(seen) = Len(input)

\* C1: after push(x1)..push(xn) on a default-constructed stack, n times
\* (top(), pop()) reads xn, ..., x1 in that order, none of the 2n calls
\* signals an error, and afterwards the stack is valid and empty: size()
\* returns 0 and empty() returns true.
C1_Lifo ==
    /\ phase # "failed"
    /\ phase \in {"read", "pop"} => seen = SubSeq(Reverse(input), 1, Len(seen))
    /\ LifoDone =>
          /\ valid(X)
          /\ Returned(size(Frame(X, heap))) /\ size(Frame(X, heap)).ret = 0
          /\ Returned(empty(Frame(X, heap))) /\ empty(Frame(X, heap)).ret = 1

\* MaxN values, not all equal, have been pushed, read and popped
C1_Witness ==
    /\ phase = "pop" /\ Len(input) = MaxN /\ Len(seen) = MaxN
    /\ input[1] # input[MaxN] /\ last.op = "pop"

\* stack s is in the state a move leaves its source in
Tombstoned(s) ==
    /\ Lives(s)
    /\ _size(obj[s]) = 1 /\ _capacity(obj[s]) = 0 /\ _data(obj[s]) = Null

OneStackOps ==
    {"push", "emplace", "pop", "top", "size", "empty", "clear", "reserve"}
CopyOps == {"copy_ctor", "copy_assign"}
MoveOps == {"move_ctor", "move_assign"}

\* C2: a move construction or move assignment from a valid source into
\* another stack leaves the source with size 1, capacity 0 and no buffer,
\* and from then on every push, emplace, pop, top, size, empty, clear or
\* reserve on it, and every copy or move that takes it as the source,
\* signals StackInvalidState.
C2_MovedFromRejects ==
    [][\A s \in Stacks :
          /\ (last'.op \in MoveOps /\ last'.from = s /\ last'.stk # s
                /\ valid(obj[s]) /\ last'.res = "ok") => Tombstoned(s)'
          /\ (/\ Tombstoned(s)
              /\ \/ last'.op \in OneStackOps /\ last'.stk = s
                 \/ last'.op \in CopyOps \cup MoveOps /\ last'.from = s)
                => last'.res = "StackInvalidState"]_vars

\* the step is the move of valid stack s into d; an assignment is onto a
\* valid d
MoveStep(d, s) ==
    /\ last'.op \in MoveOps /\ last'.stk = d /\ last'.from = s /\ d # s
    /\ valid(obj[s])
    /\ last'.op = "move_assign" => valid(obj[d])

\* C3: move construction and move assignment from a valid source holding
\* e1..en leave the destination valid, holding e1..en in that order, with
\* the data pointer, capacity and size the source had: the buffer changes
\* owner, no buffer is allocated and no element is written.
C3_MoveTransfers ==
    [][\A d \in Stacks, s \in Stacks :
          MoveStep(d, s) =>
             /\ last'.res = "ok"
             /\ valid(obj'[d])
             /\ _data(obj'[d]) = _data(obj[s])
             /\ _capacity(obj'[d]) = _capacity(obj[s])
             /\ _size(obj'[d]) = _size(obj[s])
             /\ Elements(heap', _data(obj'[d]), _size(obj'[d])) = Contents(s)
             /\ last'.na = 0
             /\ _data(obj[s]) # Null =>
                   heap'[BlockOf(_data(obj[s]))] = heap[BlockOf(_data(obj[s]))]]_vars

\* a move assignment has put two different elements into a stack that held
\* an element of its own
C3_Witness ==
    /\ last.op = "move_assign" /\ last.res = "ok" /\ last.nf = 1
    /\ valid(obj[last.stk]) /\ _size(obj[last.stk]) = 2
    /\ Contents(last.stk)[1] # Contents(last.stk)[2]
    /\ Tombstoned(last.from)

\* the step is the copy of valid, non-empty stack s into d, for which the
\* allocator had a buffer; an assignment is onto a valid d
CopyStep(d, s) ==
    /\ last'.op \in CopyOps /\ last'.stk = d /\ last'.from = s /\ d # s
    /\ valid(obj[s]) /\ _size(obj[s]) > 0
    /\ last'.op = "copy_assign" => valid(obj[d])
    /\ last'.res # "bad_alloc"

\* the step is a push, pop or clear on s while t is a valid stack
MutateStep(s, t) ==
    /\ last'.op \in {"push", "pop", "clear"} /\ last'.stk = s /\ t # s
    /\ Lives(t) /\ valid(obj[t])

\* C4: copy construction and copy assignment from a valid non-empty source
\* give a valid destination with the source's size and elements in a buffer
\* of its own, and leave the source as it was; a later push, pop or clear on
\* one stack leaves the other's object and elements as they were.
C4_CopyIndependent ==
    [][\A d \in Stacks, s \in Stacks :
          /\ CopyStep(d, s) =>
                /\ last'.res = "ok"
                /\ valid(obj'[d])
                /\ _size(obj'[d]) = _size(obj[s])
                /\ Elements(heap', _data(obj'[d]), _size(obj'[d])) = Contents(s)
                /\ _data(obj'[d]) # _data(obj[s])
                /\ obj'[s] = obj[s]
                /\ Elements(heap', _data(obj'[s]), _size(obj'[s])) = Contents(s)
          /\ MutateStep(d, s) =>
                /\ obj'[s] = obj[s]
                /\ Elements(heap', _data(obj'[s]), _size(obj'[s])) = Contents(s)]_vars

\* after y was copy-constructed from x, a push has made one of them longer
\* than the other
C4_Witness ==
    /\ phase = "copy_ctor" /\ calls = 1
    /\ last.op = "push" /\ last.res = "ok"
    /\ Lives("x") /\ Lives("y") /\ valid(X) /\ valid(Y)
    /\ _size(X) # _size(Y) /\ _size(X) > 0 /\ _size(Y) > 0
    /\ Contents("x")[1] = Contents("y")[1]

C6_AlwaysValid ==
    Lives("x") =>
       /\ start_canary(X) = canary_value
       /\ end_canary(X) = canary_value
       /\ _size(X) <= _capacity(X)
       /\ _capacity(X) = 0 <=> _data(X) = Null
       /\ _hash(X) = compute_hash(X)

\* a pop has signalled StackUnderflow
C6_Witness ==
    /\ Lives("x") /\ last.op = "pop" /\ last.res = "StackUnderflow"
    /\ _size(X) = 0

\* C7: reserve(new_capacity) with new_capacity > 0 on a valid stack, also
\* with new_capacity below the size, either returns with the stack valid,
\* capacity = new_capacity and size <= capacity, or fails with the data
\* pointer, capacity, size and elements as before; it writes no element
\* past the new buffer and never leaves the stack invalid.
C7_ReserveSafe ==
    [][(last'.op = "reserve" /\ Lives("x") /\ valid(X)) =>
          /\ last'.oob = 0
          /\ valid(X')
          /\ (last'.res = "ok" /\ last'.arg > 0) =>
                /\ _capacity(X') = last'.arg
                /\ _size(X') <= _capacity(X')
          /\ last'.res # "ok" =>
                /\ _data(X') = _data(X)
                /\ _capacity(X') = _capacity(X)
                /\ _size(X') = _size(X)
                /\ Elements(heap', _data(X'), _size(X')) = Contents("x")]_vars

\* C8: pop() and top() on a valid stack of size 0 signal StackUnderflow and
\* leave the stack valid and empty, with data pointer, capacity, size and
\* stored hash as before.
C8_Underflow ==
    [][(last'.op \in {"pop", "top"} /\ Lives("x") /\ valid(X) /\ _size(X) = 0)
          => /\ last'.res = "StackUnderflow"
             /\ valid(X') /\ _size(X') = 0
             /\ _data(X') = _data(X)
             /\ _capacity(X') = _capacity(X)
             /\ _hash(X') = _hash(X)
             /\ heap' = heap]_vars

\* top() has signalled StackUnderflow on an empty stack that has a buffer
C8_Witness ==
    /\ Lives("x") /\ last.op = "top" /\ last.res = "StackUnderflow"
    /\ valid(X) /\ _capacity(X) > 0

\* the step is a call of op on the valid stack x that did not end by the
\* allocator's refusal
CallOnValid(ops) ==
    /\ last'.op \in ops /\ Lives("x") /\ valid(X)
    /\ last'.res # "bad_alloc"

\* C9: push(v) and emplace(v) on a valid stack of size s return, after which
\* the size is s + 1, top() returns v and the s elements that were there
\* are where they were.
C9_PushAppends ==
    [][CallOnValid({"push", "emplace"}) =>
          /\ last'.res = "ok"
          /\ valid(X')
          /\ _size(X') = _size(X) + 1
          /\ Returned(size(Frame(X', heap')))
          /\ size(Frame(X', heap')).ret = _size(X) + 1
          /\ Returned(top(Frame(X', heap')))
          /\ top(Frame(X', heap')).ret = last'.arg
          /\ SubSeq(Elements(heap', _data(X'), _size(X')), 1, _size(X))
                = Contents("x")]_vars

\* a push has made the stack MaxSizeOne long
C9_Witness ==
    /\ Lives("x") /\ last.op = "push" /\ last.res = "ok"
    /\ valid(X) /\ _size(X) = MaxSizeOne

\* C10: a push on a valid stack with size = capacity = c reallocates once,
\* to capacity 2 * c + 1, and leaves the c elements where they were; a push
\* with size < capacity allocates and releases nothing and leaves the
\* capacity and the data pointer as they were.
C10_Growth ==
    [][CallOnValid({"push"}) =>
          IF _size(X) = _capacity(X)
          THEN /\ last'.na = 1
               /\ last'.nf = (IF _capacity(X) = 0 THEN 0 ELSE 1)
               /\ _capacity(X') = 2 * _capacity(X) + 1
               /\ SubSeq(Elements(heap', _data(X'), _size(X')), 1, _size(X))
                     = Contents("x")
          ELSE /\ last'.na = 0 /\ last'.nf = 0
               /\ _capacity(X') = _capacity(X)
               /\ _data(X') = _data(X)]_vars

\* a push has grown the stack from capacity 3 to capacity 7
C10_Witness ==
    /\ Lives("x") /\ last.op = "push" /\ last.res = "ok"
    /\ last.na = 1 /\ last.nf = 1
    /\ _capacity(X) = 7 /\ _size(X) = 4


\* C11: a pop on a valid stack of size s >= 1 and capacity c that does not
\* end by the allocator's refusal leaves size s - 1; when 5 * (s - 1) < 2 * c
\* the capacity becomes s - 1, with no buffer when s - 1 = 0, otherwise the
\* capacity and the buffer stay; the s - 1 elements below the top keep their
\* values and order.
C11_PopShrinks ==
    [][(CallOnValid({"pop"}) /\ _size(X) >= 1) =>
          /\ last'.res = "ok"
          /\ valid(X')
          /\ _size(X') = _size(X) - 1
          /\ IF 5 * (_size(X) - 1) < 2 * _capacity(X)
             THEN /\ _capacity(X') = _size(X) - 1
                  /\ _size(X) = 1 => _data(X') = Null
             ELSE /\ _capacity(X') = _capacity(X)
                  /\ _data(X') = _data(X)
          /\ Elements(heap', _data(X'), _size(X'))
                = SubSeq(Contents("x"), 1, _size(X) - 1)]_vars

\* a pop has shrunk the stack to a buffer of the two elements that remain
C11_Witness ==
    /\ Lives("x") /\ last.op = "pop" /\ last.res = "ok"
    /\ last.na = 1 /\ last.nf = 1
    /\ valid(X) /\ _size(X) = 2 /\ _capacity(X) = 2
    /\ Contents("x")[1] # Contents("x")[2]

\* C12: when the allocator refuses the request of reserve(n), n > 0, or of
\* the growth step of push or emplace on a valid stack, the call ends by
\* std::bad_alloc, not by StackUnderflow or StackInvalidState, and the
\* object, its stored hash included, and the heap are as before the call,
\* so the stack is still valid.
C12_AllocFailureAtomic ==
    [][(Lives("x") /\ valid(X)) =>
          /\ \A n \in 1..MaxReserve :
                reserve(Frame(X, heap), n, -1, FALSE).exc = "bad_alloc"
          /\ \A v \in Values :
                _size(X) = _capacity(X) =>
                   /\ push(Frame(X, heap), v, -1).exc = "bad_alloc"
                   /\ emplace(Frame(X, heap), v, -1).exc = "bad_alloc"
          /\ (last'.op \in {"reserve", "push", "emplace"}
                /\ last'.res = "bad_alloc") =>
                /\ obj' = obj
                /\ heap' = heap
                /\ valid(X')
                /\ last'.na = 0 /\ last'.nf = 0]_vars

\* the growth step of a push on a full stack of three elements was refused
C12_Witness ==
    /\ Lives("x") /\ last.op = "push" /\ last.res = "bad_alloc"
    /\ valid(X) /\ _size(X) = 3 /\ _capacity(X) = 3


\* the blocks the allocator has handed out and not got back
LiveBlocks(h) == {b \in Blocks : h[b].live}

\* C13: through declarations, pushes, pops, clears, reserves, copies, moves
\* and destructions, two stacks never hold the same non-null data pointer,
\* and every deallocation releases a block that was allocated and not yet
\* released (the blocks in use change by the allocations minus the
\* deallocations of the call); destroying a moved-from stack releases
\* nothing, so the buffer a move transferred is released once, by the
\* stack that received it.
C13_ExclusiveOwnership ==
    [][/\ \A s \in Stacks, u \in Stacks :
             (s # u /\ Lives(s) /\ Lives(u) /\ _data(obj[s]) # Null)
                => _data(obj[s]) # _data(obj[u])
       /\ Cardinality(LiveBlocks(heap'))
             = Cardinality(LiveBlocks(heap)) + last'.na - last'.nf
       /\ \A s \in Stacks :
             (last'.op = "dtor" /\ last'.stk = s /\ Tombstoned(s))
                => last'.nf = 0 /\ heap' = heap
       /\ \A s \in Stacks :
             (last'.op = "dtor" /\ last'.stk = s /\ Lives(s) /\ valid(obj[s])
                /\ _data(obj[s]) # Null)
                => /\ last'.nf = 1
                   /\ heap[BlockOf(_data(obj[s]))].live
                   /\ ~heap'[BlockOf(_data(obj[s]))].live]_vars

\* the stack that received x's buffer by a move has been destroyed and has
\* released it; x is left moved-from and every block is free
C13_Witness ==
    /\ last.op = "dtor" /\ last.stk = "y" /\ last.nf = 1
    /\ obj["y"] = Gone /\ Tombstoned("x")
    /\ LiveBlocks(heap) = {}


\* C14: the destructor of a valid stack releases its buffer, once, with the
\* elements in it, and touches no other block; the destructor of an invalid
\* stack (moved-from, or written to from outside) leaves the heap as it is;
\* neither signals an error, and the object is gone afterwards.
C14_Destructor ==
    [][(last'.op = "dtor" /\ last'.stk = "x") =>
          /\ last'.res = "ok"
          /\ last'.na = 0
          /\ X' = Gone
          /\ IF valid(X)
             THEN IF _data(X) = Null
                  THEN last'.nf = 0 /\ heap' = heap
                  ELSE /\ last'.nf = 1
                       /\ heap[BlockOf(_data(X))].live
                       /\ Len(heap[BlockOf(_data(X))].slots) = _capacity(X)
                       /\ heap'[BlockOf(_data(X))] = FreeBlock
                       /\ \A b \in Blocks \ {BlockOf(_data(X))} :
                             heap'[b] = heap[b]
             ELSE last'.nf = 0 /\ heap' = heap]_vars

\* x was destroyed while overwritten from outside: the buffer it had is
\* still allocated
C14_Witness ==
    /\ last.op = "dtor" /\ last.nf = 0 /\ X = Gone
    /\ Undeclared("y")
    /\ \E b \in Blocks : heap[b].live /\ Len(heap[b].slots) > 0


SameAsClear ==
    LET r == reserve(Frame(X, heap), 0, -1, FALSE)
        c == clear(Frame(X, heap))
    IN  /\ r = c
        /\ Returned(c)
        /\ valid(c.o)
        /\ _size(c.o) = 0 /\ _capacity(c.o) = 0 /\ _data(c.o) = Null
        /\ _data(X) # Null =>
              /\ c.nf = 1
              /\ c.h = [heap EXCEPT ![BlockOf(_data(X))] = FreeBlock]

\* reserve(0) and clear() on x as it is now change nothing
BothNoOps ==
    LET r == reserve(Frame(X, heap), 0, -1, FALSE)
        c == clear(Frame(X, heap))
    IN  /\ r.o = X /\ r.h = heap /\ r.nf = 0
        /\ c.o = X /\ c.h = heap /\ c.nf = 0

\* the step is a clear() or a reserve(0) that returned
ClearStep ==
    \/ last'.op = "clear" /\ last'.res = "ok"
    \/ last'.op = "reserve" /\ last'.arg = 0 /\ last'.res = "ok"

\* C16 as stated: on every valid stack reserve(0) and clear() have the same
\* effect, ending valid with size 0, capacity 0 and a null data pointer, and
\* on a stack of size 0 both are no-ops.
C16_ReserveZeroIsClear ==
    [][(Lives("x") /\ valid(X)) =>
          /\ SameAsClear
          /\ _size(X) = 0 => BothNoOps]_vars

\* C16, amended: on every valid stack reserve(0) and clear() have the same
\* effect, ending valid with size 0, capacity 0 and a null data pointer;
\* both are no-ops on a stack that has no buffer, and both release the
\* buffer of a stack of size 0 that has one; a clear() or reserve(0) that
\* is called leaves x as clear() computes it.
C16_ReserveZeroIsClearUnlessBuffer ==
    [][(Lives("x") /\ valid(X)) =>
          /\ SameAsClear
          /\ _data(X) = Null => BothNoOps
          /\ ClearStep =>
                /\ X' = clear(Frame(X, heap)).o
                /\ heap' = clear(Frame(X, heap)).h]_vars

\* reserve(0) has released the buffer of a stack, which is now valid and
\* without a buffer
C16_Witness ==
    /\ Lives("x") /\ last.op = "reserve" /\ last.arg = 0 /\ last.res = "ok"
    /\ last.nf = 1
    /\ valid(X) /\ _capacity(X) = 0 /\ _data(X) = Null


\* acc after the first n bytes: 1 for n = 0, then (31 * acc + b[n]) mod 256
RECURSIVE Acc(_, _)
Acc(b, n) == IF n = 0 THEN 1 ELSE (31 * Acc(b, n - 1) + b[n]) % 256

\* C17: hash of the bytes b1..bn is the value reached from 1 by
\* acc = (31 * acc + bi) mod 256 for i = 1..n in order; three zero bytes
\* give 31^3 mod 256 and the bytes 0, 0, 0, 0xFF give (31^4 + 0xFF) mod 256.
C17_HashIsRollingSum ==
    phase = "hashed" =>
       /\ seen = <<Acc(input, Len(input))>>
       /\ input = <<0, 0, 0>> => seen = <<(31 * 31 * 31) % 256>>
       /\ input = <<0, 0, 0, 255>> => seen = <<(31 * 31 * 31 * 31 + 255) % 256>>

\* hash was called on the bytes 0, 0, 0, 0xFF
C17_Witness ==
    phase = "hashed" /\ input = <<0, 0, 0, 255>> /\ seen = <<128>>


\* C18: the const-qualified top() on a valid stack that is not empty
\* returns the element data[size - 1], as top() does, and on a valid empty
\* stack it signals StackUnderflow; in both cases the call terminates.
C18_ConstTopReturns ==
    [][(last'.op = "top_const" /\ Lives("x") /\ valid(X)) =>
          /\ last'.res \notin Diverges
          /\ last'.res = Result(top(Frame(X, heap)))
          /\ last'.ret = top(Frame(X, heap)).ret
          /\ _size(X) = 0 => last'.res = "StackUnderflow"
          /\ _size(X) > 0 =>
                last'.res = "ok" /\ last'.ret = Contents("x")[_size(X)]]_vars


\* the step is the copy into d of the valid stack s that has size 0,
\* capacity 0 and no buffer, the allocator not refusing; an assignment is
\* onto a valid d
CopyEmptyStep(d, s) ==
    /\ last'.op \in CopyOps /\ last'.stk = d /\ last'.from = s /\ d # s
    /\ valid(obj[s])
    /\ _size(obj[s]) = 0 /\ _capacity(obj[s]) = 0 /\ _data(obj[s]) = Null
    /\ last'.op = "copy_assign" => valid(obj[d])
    /\ last'.res # "bad_alloc"

\* C19: copy construction and copy assignment from a valid stack with size
\* 0, capacity 0 and no buffer return without an error and leave the
\* destination valid and empty, its capacity 0 exactly when its data
\* pointer is null.
C19_CopyOfEmpty ==
    [][\A d \in Stacks, s \in Stacks :
          CopyEmptyStep(d, s) =>
             /\ last'.res = "ok"
             /\ Lives(d)'
             /\ valid(obj'[d])
             /\ _size(obj'[d]) = 0
             /\ _capacity(obj'[d]) = 0 <=> _data(obj'[d]) = Null]_vars

\* the stacks whose validity a call checks before anything else
Checked(op, d, s) ==
    IF op \in {"copy_ctor", "move_ctor"} THEN {s}
    ELSE IF op \in {"copy_assign", "move_assign"} THEN {d, s}
    ELSE {d}

\* the step is a call that signals StackInvalidState, one of the stacks it
\* checks at entry being invalid
RejectedAtEntry ==
    /\ last'.res = "StackInvalidState"
    /\ last'.op \in OneStackOps \cup CopyOps \cup MoveOps
    /\ \E u \in Checked(last'.op, last'.stk, last'.from) : ~valid(obj[u])

\* C20: a call that signals StackInvalidState because a stack it checks at
\* entry is invalid leaves every object and the heap as they were and
\* allocates and releases nothing; a move assignment from an invalid source
\* leaves the valid destination with its elements.
C20_RejectionChangesNothing ==
    [][RejectedAtEntry =>
          /\ obj' = obj
          /\ heap' = heap
          /\ last'.na = 0 /\ last'.nf = 0]_vars

\* a move assignment from the moved-from x was rejected; y still holds its
\* two elements
C20_Witness ==
    /\ last.op = "move_assign" /\ last.res = "StackInvalidState"
    /\ last.stk = "y" /\ last.from = "x"
    /\ Tombstoned("x")
    /\ Lives("y") /\ valid(Y) /\ _size(Y) = 2 /\ Len(Contents("y")) = 2


\* C21: a move assignment from a valid stack onto another valid stack that
\* owns a buffer with k elements returns, having destroyed those k elements
\* and deallocated that buffer once, by its clear(), before it adopts the
\* source's buffer: afterwards the block is free, no stack holds its
\* address, the destination holds the source's buffer, and no other block
\* has changed.
C21_MoveAssignReleases ==
    [][\A d \in Stacks, s \in Stacks :
          (MoveStep(d, s) /\ last'.op = "move_assign" /\ _data(obj[d]) # Null) =>
             LET p == _data(obj[d])
                 b == BlockOf(p)
                 k == _size(obj[d])
                 c == clear(Frame(obj[d], heap))
                 f == move_assign(obj[d], obj[s], heap)
             IN  /\ last'.res = "ok"
                 /\ heap[b].live
                 /\ \A i \in 1..k : heap[b].slots[i] # Raw
                 /\ c.nd = k /\ c.nf = 1 /\ c.h[b] = FreeBlock
                 /\ f.nd = k /\ f.nf = 1 /\ f.h = c.h
                 /\ obj'[d] = f.o /\ heap' = f.h
                 /\ last'.nf = 1 /\ last'.na = 0
                 /\ heap'[b] = FreeBlock
                 /\ \A e \in Blocks \ {b} : heap'[e] = heap[e]
                 /\ \A u \in Stacks : Lives(u)' => _data(obj'[u]) # p
                 /\ _data(obj'[d]) = _data(obj[s])]_vars

\* y, which held two elements in a buffer of its own, was move-assigned the
\* one element of x: y's buffer is free and x's is the only block in use
C21_Witness ==
    /\ last.op = "move_assign" /\ last.stk = "y" /\ last.from = "x"
    /\ last.res = "ok" /\ last.nf = 1
    /\ valid(Y) /\ _size(Y) = 1 /\ _capacity(Y) = 1
    /\ Tombstoned("x")
    /\ LiveBlocks(heap) = {BlockOf(_data(Y))}


\* C22 as stated: after a pop that shrank the buffer to the size it left,
\* every call of an alternation of push and pop of one element allocates or
\* deallocates a buffer, whatever size the shrink left.
C22_AlternationReallocates ==
    phase = "alt" => \A i \in 1..Len(seen) : seen[i] = 1

\* C22, amended: after a pop that shrank the buffer to the size n it left,
\* the first push of the alternation grows the buffer to capacity 2n + 1;
\* when n <= 1 the pop after it shrinks again to capacity n and so every
\* call of the alternation reallocates; when n >= 2 that pop leaves n
\* elements in 2n + 1 slots, which is not below the threshold
\* (5n >= 4n + 2), and no call after the first push reallocates.
C22_AlternationReallocatesBelowTwo ==
    phase = "alt" =>
       LET n == input[1]
       IN  /\ Len(seen) = calls
           /\ valid(X)
           /\ _size(X) = n + (calls % 2)
           /\ calls = 0 => _capacity(X) = n
           /\ calls >= 1 => seen[1] = 1
           /\ n <= 1 =>
                 /\ \A i \in 1..Len(seen) : seen[i] = 1
                 /\ _capacity(X) = IF calls % 2 = 1 THEN 2 * n + 1 ELSE n
           /\ n >= 2 =>
                 /\ \A i \in 2..Len(seen) : seen[i] = 0
                 /\ calls >= 1 => _capacity(X) = 2 * n + 1

\* after a shrink that left one element, two pushes and two pops in
\* alternation have each reallocated
C22_Witness ==
    /\ phase = "alt" /\ input = <<1>> /\ last.op = "pop"
    /\ Len(seen) >= 4 /\ \A i \in 1..4 : seen[i] = 1
    /\ valid(X) /\ _size(X) = 1 /\ _capacity(X) = 1


\* stack s, if it lives, has no buffer or fills at least 40% of it
SlackBounded(s) ==
    Lives(s) =>
       \/ _capacity(obj[s]) = 0
       \/ 5 * _size(obj[s]) >= 2 * _capacity(obj[s])

AllDestroyed ==
    /\ \E s \in Stacks : obj[s] = Gone
    /\ \A s \in Stacks : ~Lives(s)

\* the step is a copy assignment that returned, of s onto the valid stack d
\* that owns a buffer
CopyOntoBuffer(d, s) ==
    /\ last'.op = "copy_assign" /\ last'.stk = d /\ last'.from = s /\ d # s
    /\ last'.res = "ok"
    /\ valid(obj[d]) /\ _data(obj[d]) # Null

\* C24: in a run without a write from outside and without a failed call,
\* once every stack that was created has been destroyed every block the
\* allocator handed out has been deallocated, so that no constructed
\* element is left; a copy assignment onto a stack that owns a buffer
\* destroys that stack's elements and deallocates the buffer.
C24_NothingLeaks ==
    [][/\ (phase' = "clean" /\ AllDestroyed') =>
             \A b \in Blocks : heap'[b] = FreeBlock
       /\ \A d \in Stacks, s \in Stacks :
             CopyOntoBuffer(d, s) =>
                /\ last'.nf = 1
                /\ \A a \in Answers(0) \ {-1} :
                      copy_assign(obj[d], obj[s], heap, a).nd = _size(obj[d])
                /\ Cardinality(LiveBlocks(heap')) = Cardinality(LiveBlocks(heap))]_vars

====
